---- MODULE Spec2Model ----
(***************************************************************************)
(* A model of abstract-ns: the Router (src/src/routing.rs), the in-memory  *)
(* resolver behind its exact-name table (src/src/mem.rs), host names       *)
(* (src/src/name.rs) and the one-shot-to-stream adapters                   *)
(* (src/src/stream_once.rs, src/src/combinators.rs), Address and its       *)
(* WeightedSet (src/src/addr.rs, src/src/address.rs) and the Union of      *)
(* address streams (src/src/union.rs).                                     *)
(*                                                                         *)
(* Strings are sequences of one-character strings, so that slicing,        *)
(* splitting and searching for dots are done as the code does them.        *)
(* Option<T> is a sequence of length 0 (None) or 1 (Some(x)).              *)
(***************************************************************************)
EXTENDS Integers, Sequences, FiniteSets, TLC

VARIABLES
    phase,          \* "building": a RouterBuilder exists; "built": a Router
    names,          \* Inner.names: MemResolver.names, host string -> IP
    suffixes,       \* Inner.suffixes: suffix string -> resolver
    fallback,       \* Inner.fallback: Option<resolver>
    lastSuffixCall, \* history: suffix -> resolver of the last add_suffix call
    overwritten,    \* history: suffixes registered again with another resolver
    last,           \* Option<record of the last resolve/subscribe call>
    impl,           \* which StreamOnce is under test
    future,         \* StreamOnce.future: Option<inner future>
    inner,          \* state of the inner future
    polls,          \* history: what each poll of the stream found and returned
    variant,        \* which WeightedSet::pick_one is under test
    acase,          \* the Address operation applied, and its inputs
    aout,           \* Option<what the operation returned>
    ustreams,       \* Union.streams: each input "open" or "ended"
    ubuf,           \* Union.buf: Option<last Address> of each input
    ulatest,        \* history: Option<last item each input yielded>
    upending,       \* history: inputs whose last item no emission has shown
    ulast,          \* history: what the last poll of the Union returned
    bphase,         \* "building": a Builder exists; "built": an Address
    baddresses,     \* Builder.addresses
    bcalls,         \* history: the sets passed to add_addresses, in order
    baddr,          \* Option<the Address into_address returned>
    nsrc,           \* the string given to Name::from_str
    nparsed,        \* Option<what from_str returned>
    nshown,         \* Option<the parsed Name, displayed>
    nreparsed,      \* Option<what from_str returned for the displayed Name>
    wrapper,        \* the null wrapper at work
    wlast           \* Option<record of the call made on the wrapper>

routerVars == <<phase, names, suffixes, fallback, lastSuffixCall, overwritten, last>>
streamVars == <<impl, future, inner, polls>>
addrVars == <<variant, acase, aout>>
unionVars == <<ustreams, ubuf, ulatest, upending, ulast>>
vars == <<phase, names, suffixes, fallback, lastSuffixCall, overwritten, last,
          impl, future, inner, polls, variant, acase, aout,
          ustreams, ubuf, ulatest, upending, ulast,
          bphase, baddresses, bcalls, baddr,
          nsrc, nparsed, nshown, nreparsed, wrapper, wlast>>
builderVars == <<bphase, baddresses, bcalls, baddr>>
nameVars == <<nsrc, nparsed, nshown, nreparsed>>
nullVars == <<wrapper, wlast>>
restVars == <<builderVars, nameVars, nullVars>>

(***************************************************************************)
(* Bounds and input sets                                                   *)
(***************************************************************************)
\* longest host string of a requested Name
MaxHostLen == 5
\* number of polls of a stream that are followed
MaxPolls == 4

None == <<>>
Some(x) == <<x>>
IsSome(o) == Len(o) = 1
Unwrap(o) == o[1]

Dot == "."
\* characters of the hosts that are requested
HostChars == {"a", Dot}
\* keys given to add_ip
ExactKeys == {<<"a">>, <<"a", Dot, "a">>}
\* keys given to add_suffix
SuffixKeys == {<<"a">>, <<"a", Dot, "a">>}
IPs == {"127.0.0.1"}
\* resolver objects handed to add_suffix and add_default
Resolvers == {"r1", "r2"}
\* default_port of a requested Name
Ports == {None, Some(80)}

Strings(chars, n) == UNION {[1..k -> chars] : k \in 0..n}

(***************************************************************************)
(* String helpers (Rust's str methods)                                     *)
(***************************************************************************)
\* &s[i..] with a 0-based byte index i
SliceFrom(s, i) == SubSeq(s, i + 1, Len(s))
\* &s[..i]
SliceTo(s, i) == SubSeq(s, 1, i)

ends_with(s, c) == Len(s) > 0 /\ s[Len(s)] = c
starts_with(s, c) == Len(s) > 0 /\ s[1] = c

\* s.split('.') : the pieces between dots, in order
RECURSIVE split(_)
split(s) ==
    IF \A i \in 1..Len(s) : s[i] # Dot THEN <<s>>
    ELSE LET i == CHOOSE i \in 1..Len(s) :
                      s[i] = Dot /\ \A j \in 1..(i - 1) : s[j] # Dot
         IN <<SliceTo(s, i - 1)>> \o split(SliceFrom(s, i))

\* the 0-based indices 0..n-1 as a sequence
UpTo(n) == [i \in 1..n |-> i - 1]

RECURSIVE SelectIdx(_, _)
SelectIdx(s, idxs) ==
    IF idxs = <<>> THEN <<>>
    ELSE (IF s[Head(idxs) + 1] = Dot THEN <<Head(idxs)>> ELSE <<>>)
         \o SelectIdx(s, Tail(idxs))

Reverse(q) == [i \in 1..Len(q) |-> q[Len(q) + 1 - i]]

(***************************************************************************)
(* Name (src/src/name.rs)                                                  *)
(***************************************************************************)
LowercaseChars == {"a", "b"}
\* c.is_ascii() && (c.is_lowercase() || c == '-' || c == '_')
AllowedChar(c) == c \in LowercaseChars \cup {"-", "_"}

RECURSIVE CheckPieces(_)
CheckPieces(pieces) ==
    IF pieces = <<>> THEN "Ok"
    ELSE LET piece == Head(pieces) IN
         IF Len(piece) = 0 THEN "DotError"
         ELSE IF ~ \A i \in 1..Len(piece) : AllowedChar(piece[i])
              THEN "InvalidChar"
         ELSE IF starts_with(piece, "-") \/ ends_with(piece, "-")
              THEN "InvalidPrefixSuffix"
         ELSE CheckPieces(Tail(pieces))

namecheck(name) ==
    LET n == IF ends_with(name, Dot) THEN SliceTo(name, Len(name) - 1) ELSE name
    IN CheckPieces(split(n))

\* the hosts a Name can hold
ValidHosts == {h \in Strings(HostChars, MaxHostLen) : namecheck(h) = "Ok"}
Names == [host : ValidHosts, port : Ports]

(***************************************************************************)
(* Results                                                                 *)
(***************************************************************************)
Ok(ip, port) == [tag |-> "Ok", ip |-> ip, port |-> port, err |-> "-"]
Err(e) == [tag |-> "Err", ip |-> "-", port |-> 0, err |-> e]
\* what a resolver outside the Router may answer
ExtOutcomes == {Ok("10.0.0.1", 80), Err("NameNotFound"), Err("TemporaryError")}

(***************************************************************************)
(* MemResolver (src/src/mem.rs)                                            *)
(***************************************************************************)
EmptyMap == <<>>

HashMapInsertIfAbsent(m, k, v) ==
    [x \in DOMAIN m \cup {k} |-> IF x \in DOMAIN m THEN m[x] ELSE v]

\* HashMap::insert: the new value replaces the old one
HashMapInsert(m, k, v) ==
    [x \in DOMAIN m \cup {k} |-> IF x = k THEN v ELSE m[x]]

contains_name(host) == host \in DOMAIN names

MemResolve(name) ==
    IF name.port = None THEN Err("InvalidName")
    ELSE IF name.host \in DOMAIN names
         THEN Ok(names[name.host], Unwrap(name.port))
         ELSE Err("NameNotFound")

\* the first item of the stream MemResolver::subscribe returns: the default
\* subscribe, the one-shot adapter over resolve
MemSubscribe(name) == MemResolve(name)

(***************************************************************************)
(* Router (src/src/routing.rs)                                             *)
(***************************************************************************)
Target(kind, key, resolver) == [kind |-> kind, key |-> key, resolver |-> resolver]

\* every byte index, not only those of dots
all_indices(host) == UpTo(Len(host))

\* host.rmatch_indices('.')
rmatch_indices(host) == Reverse(SelectIdx(host, UpTo(Len(host))))

\* host.match_indices('.') : the indices of the dots, left to right
match_indices(host) == SelectIdx(host, UpTo(Len(host)))

\* &host[idx..] keeps the dot
suffix_with_dot(host, idx) == SliceFrom(host, idx)

\* the text after the dot, without a dot at its end
suffix_trimmed(host, idx) ==
    LET t == SliceFrom(host, idx + 1)
    IN  IF ends_with(t, Dot) THEN SliceTo(t, Len(t) - 1) ELSE t

\* &host[idx+1..]
suffix_after(host, idx) == SliceFrom(host, idx + 1)

\* the for loop over the dots: the first index whose suffix is registered
RECURSIVE ScanDots(_, _)
ScanDots(host, idxs) ==
    IF idxs = <<>> THEN None
    ELSE LET suffix == suffix_after(host, Head(idxs)) IN
         IF suffix \in DOMAIN suffixes THEN Some(suffix)
         ELSE ScanDots(host, Tail(idxs))

resolve_target_suffix_first(host) ==
    IF host \in DOMAIN suffixes THEN Target("suffix", host, suffixes[host])
    ELSE LET hit == ScanDots(host, match_indices(host)) IN
         IF IsSome(hit) THEN Target("suffix", Unwrap(hit), suffixes[Unwrap(hit)])
         ELSE IF contains_name(host) THEN Target("exact", <<>>, "mem")
         ELSE IF IsSome(fallback) THEN Target("fallback", <<>>, Unwrap(fallback))
         ELSE Target("none", <<>>, "-")

resolve_target_fallback_first(host) ==
    IF contains_name(host) THEN Target("exact", <<>>, "mem")
    ELSE IF host \in DOMAIN suffixes THEN Target("suffix", host, suffixes[host])
    ELSE IF IsSome(fallback) THEN Target("fallback", <<>>, Unwrap(fallback))
    ELSE LET hit == ScanDots(host, match_indices(host)) IN
         IF IsSome(hit) THEN Target("suffix", Unwrap(hit), suffixes[Unwrap(hit)])
         ELSE Target("none", <<>>, "-")

\* which resolver Router::resolve returns the future of
resolve_target(host) ==
    IF contains_name(host) THEN Target("exact", <<>>, "mem")
    ELSE IF host \in DOMAIN suffixes THEN Target("suffix", host, suffixes[host])
    ELSE LET hit == ScanDots(host, match_indices(host)) IN
         IF IsSome(hit) THEN Target("suffix", Unwrap(hit), suffixes[Unwrap(hit)])
         ELSE IF IsSome(fallback) THEN Target("fallback", <<>>, Unwrap(fallback))
         ELSE Target("none", <<>>, "-")

subscribe_target_no_scan(host) ==
    IF contains_name(host) THEN Target("exact", <<>>, "mem")
    ELSE IF host \in DOMAIN suffixes THEN Target("suffix", host, suffixes[host])
    ELSE IF IsSome(fallback) THEN Target("fallback", <<>>, Unwrap(fallback))
    ELSE Target("none", <<>>, "-")

\* which resolver Router::subscribe returns the stream of
subscribe_target(host) ==
    IF contains_name(host) THEN Target("exact", <<>>, "mem")
    ELSE IF host \in DOMAIN suffixes THEN Target("suffix", host, suffixes[host])
    ELSE LET hit == ScanDots(host, match_indices(host)) IN
         IF IsSome(hit) THEN Target("suffix", Unwrap(hit), suffixes[Unwrap(hit)])
         ELSE IF IsSome(fallback) THEN Target("fallback", <<>>, Unwrap(fallback))
         ELSE Target("none", <<>>, "-")

\* what the resolver of target t answers for name; oracle gives the answers of
\* the resolvers outside the Router
Answer(op, t, name, oracle) ==
    IF t.kind = "exact"
    THEN (IF op = "resolve" THEN MemResolve(name) ELSE MemSubscribe(name))
    ELSE IF t.kind = "none" THEN Err("NameNotFound")
    ELSE oracle[t.resolver]

Call(op, name, t, invoked, produced, returned) ==
    [op |-> op, name |-> name, kind |-> t.kind, key |-> t.key,
     invoked |-> invoked, produced |-> produced, returned |-> returned,
     stream |-> IF op = "resolve" THEN "-"
                ELSE IF t.kind = "none" THEN "StreamOnce" ELSE "delegated"]

\* a Router that tries the fallback when the chosen resolver fails
dispatch_retry(op, name, t, oracle) ==
    LET first == Answer(op, t, name, oracle) IN
    IF t.kind = "suffix" /\ first.tag = "Err" /\ IsSome(fallback)
    THEN Call(op, name, t, <<t.resolver, Unwrap(fallback)>>, first,
              oracle[Unwrap(fallback)])
    ELSE Call(op, name, t, IF t.kind = "none" THEN <<>> ELSE <<t.resolver>>,
              first, first)

\* `return resolver.resolve(name)`: one resolver is called and its result is
\* the Router's result
dispatch(op, name, t, oracle) ==
    LET first == Answer(op, t, name, oracle) IN
    Call(op, name, t, IF t.kind = "none" THEN <<>> ELSE <<t.resolver>>,
         first, first)

builder_shared(p) == TRUE

\* into_resolver(self) consumes the builder: add_* need a builder
builder_alive(p) == p = "building"

add_ip(name, ip) ==
    /\ builder_alive(phase)
    /\ names' = HashMapInsert(names, name, ip)
    /\ UNCHANGED <<phase, suffixes, fallback, lastSuffixCall, overwritten, last>>

suffixes_insert(m, k, v) == HashMapInsert(m, k, v)

add_suffix(suffix, resolver) ==
    /\ builder_alive(phase)
    /\ suffixes' = suffixes_insert(suffixes, suffix, resolver)
    /\ lastSuffixCall' = [x \in DOMAIN lastSuffixCall \cup {suffix} |->
                             IF x = suffix THEN resolver ELSE lastSuffixCall[x]]
    /\ overwritten' =
           IF suffix \in DOMAIN lastSuffixCall /\ lastSuffixCall[suffix] # resolver
           THEN overwritten \cup {suffix} ELSE overwritten
    /\ UNCHANGED <<phase, names, fallback, last>>

add_default(resolver) ==
    /\ builder_alive(phase)
    /\ fallback' = Some(resolver)
    /\ UNCHANGED <<phase, names, suffixes, lastSuffixCall, overwritten, last>>

into_resolver ==
    /\ phase = "building"
    /\ phase' = "built"
    /\ UNCHANGED <<names, suffixes, fallback, lastSuffixCall, overwritten, last>>

resolve(name, oracle) ==
    /\ phase = "built"
    /\ last = None
    /\ last' = Some(dispatch("resolve", name, resolve_target(name.host), oracle))
    /\ UNCHANGED <<phase, names, suffixes, fallback, lastSuffixCall, overwritten>>

subscribe(name, oracle) ==
    /\ phase = "built"
    /\ last = None
    /\ last' = Some(dispatch("subscribe", name, subscribe_target(name.host), oracle))
    /\ UNCHANGED <<phase, names, suffixes, fallback, lastSuffixCall, overwritten>>

RouterInit ==
    /\ phase = "building"
    /\ names = EmptyMap
    /\ suffixes = EmptyMap
    /\ fallback = None
    /\ lastSuffixCall = EmptyMap
    /\ overwritten = {}
    /\ last = None

drop_result ==
    /\ phase = "built"
    /\ last # None
    /\ last' = None
    /\ UNCHANGED <<phase, names, suffixes, fallback, lastSuffixCall, overwritten>>

(***************************************************************************)
(* StreamOnce (src/src/stream_once.rs and src/src/combinators.rs)          *)
(***************************************************************************)
NoOutcome == [tag |-> "-", ip |-> "-", port |-> 0, err |-> "-"]
Outcomes == {Ok("10.0.0.1", 80), Err("NameNotFound"), Err("TemporaryError")}

Pending == [state |-> "pending", out |-> NoOutcome]
Ready(o) == [state |-> "ready", out |-> o]
Done(o) == [state |-> "done", out |-> o]

\* what polling a future that has already returned its result may do: the
\* Future contract leaves it open (futures::future::FutureResult panics)
AfterCompletion == {"panic", "NotReady", "again"}

Ret(kind, o) == [kind |-> kind, out |-> o]

\* F::poll of the inner future; choice settles a poll after completion
future_poll(inn, choice) ==
    IF inn.state = "pending" THEN [ret |-> Ret("NotReady", NoOutcome), inner |-> inn]
    ELSE IF inn.state = "ready" THEN [ret |-> Ret("Ready", inn.out), inner |-> Done(inn.out)]
    ELSE IF choice = "panic" THEN [ret |-> Ret("Panic", NoOutcome), inner |-> inn]
    ELSE IF choice = "NotReady" THEN [ret |-> Ret("NotReady", NoOutcome), inner |-> inn]
    ELSE [ret |-> Ret("Ready", inn.out), inner |-> inn]

PollResult(ret, fut, inn, touched) ==
    [ret |-> ret, future |-> fut, inner |-> inn, touched |-> touched]

\* stream_once.rs, StreamOnce::poll
stream_once_poll(fut, inn, choice) ==
    IF fut = None THEN PollResult(Ret("NotReady", NoOutcome), fut, inn, FALSE)
    ELSE LET r == future_poll(inn, choice) IN
         IF r.ret.kind = "NotReady" \/ r.ret.kind = "Panic"
         THEN PollResult(r.ret, fut, r.inner, TRUE)
         ELSE PollResult(Ret("Item", r.ret.out), None, r.inner, TRUE)

\* combinators.rs, StreamOnce::poll
combinators_poll(fut, inn, choice) ==
    IF fut = None THEN PollResult(Ret("NotReady", NoOutcome), fut, inn, FALSE)
    ELSE LET r == future_poll(inn, choice) IN
         IF r.ret.kind = "NotReady" \/ r.ret.kind = "Panic"
         THEN PollResult(r.ret, fut, r.inner, TRUE)
         ELSE PollResult(Ret("Item", r.ret.out), fut, r.inner, TRUE)

Panicked == \E i \in 1..Len(polls) : polls[i].kind = "Panic"

Record(r) ==
    [kind |-> r.ret.kind, out |-> r.ret.out, innerWas |-> inner.state,
     touched |-> r.touched]

Poll(r) ==
    /\ future' = r.future
    /\ inner' = r.inner
    /\ polls' = Append(polls, Record(r))
    /\ UNCHANGED impl

StreamOncePoll(choice) ==
    /\ impl = "stream_once"
    /\ Len(polls) < MaxPolls
    /\ ~ Panicked
    /\ Poll(stream_once_poll(future, inner, choice))

CombinatorsPoll(choice) ==
    /\ impl = "combinators"
    /\ Len(polls) < MaxPolls
    /\ ~ Panicked
    /\ Poll(combinators_poll(future, inner, choice))

\* the inner future's result arrives
Complete(o) ==
    /\ inner.state = "pending"
    /\ inner' = Ready(o)
    /\ UNCHANGED <<impl, future, polls>>

(***************************************************************************)
(* Address and WeightedSet (src/src/addr.rs, src/src/address.rs)           *)
(*                                                                         *)
(* An Address is the sequence of its priority levels, Internal.addresses;  *)
(* a level (what a WeightedSet borrows) is a sequence of <<weight, addr>>  *)
(* pairs.  Weights are small numbers here: their sums stay far below the   *)
(* top of u64, so the sum in pick_one is the mathematical sum.             *)
(***************************************************************************)
weight(pair) == pair[1]
sock(pair) == pair[2]

\* WeightedSet::addresses(): the socket addresses of a level, as a set
addresses(ws) == {sock(ws[i]) : i \in 1..Len(ws)}

\* Vec::get(i) with a 0-based index
vec_get(v, i) == IF i < Len(v) THEN Some(v[i + 1]) ELSE None

\* the level at a 1-based position
at_one_based(addr, p) == IF p >= 1 /\ p <= Len(addr) THEN addr[p] ELSE <<>>

\* Address::at(priority): the level, or an empty set when there is none
at(addr, p) ==
    LET g == vec_get(addr, p)
    IN  IF IsSome(g) THEN Unwrap(g) ELSE <<>>

\* self.addresses.iter().map(|&(w, _)| w).sum()
RECURSIVE total_weight(_)
total_weight(ws) ==
    IF Len(ws) = 0 THEN 0 ELSE weight(Head(ws)) + total_weight(Tail(ws))

\* what pick_one gives: no address, or the entry at position idx, which the
\* draw n selected (drawn = FALSE when no number was drawn)
NoPick == [kind |-> "None", sock |-> "-", idx |-> 0, drawn |-> FALSE, n |-> 0]
Chosen(ws, i) ==
    [kind |-> "Some", sock |-> sock(ws[i]), idx |-> i, drawn |-> FALSE, n |-> 0]
Drawn(ws, i, n) ==
    [kind |-> "Some", sock |-> sock(ws[i]), idx |-> i, drawn |-> TRUE, n |-> n]
Unreachable(n) ==
    [kind |-> "Unreachable", sock |-> "-", idx |-> 0, drawn |-> TRUE, n |-> n]

\* a scan that stops at an entry as soon as the remainder is not above its
\* weight
RECURSIVE scan_le(_, _, _, _)
scan_le(ws, i, rem, n) ==
    IF i > Len(ws) THEN Unreachable(n)
    ELSE IF rem <= weight(ws[i]) THEN Drawn(ws, i, n)
    ELSE scan_le(ws, i + 1, rem - weight(ws[i]), n)

\* for &(w, addr) in self.addresses { if n < w { return Some(addr) } n -= w }
\* from entry i on, with remainder rem of the draw n
RECURSIVE scan(_, _, _, _)
scan(ws, i, rem, n) ==
    IF i > Len(ws) THEN Unreachable(n)
    ELSE IF rem < weight(ws[i]) THEN Drawn(ws, i, n)
    ELSE scan(ws, i + 1, rem - weight(ws[i]), n)

\* thread_rng().choose(self.addresses): any entry
choose(ws) == {Chosen(ws, i) : i \in 1..Len(ws)}

\* self.addresses[0]
first(ws) == {Chosen(ws, 1)}

\* the two WeightedSet::pick_one of the sources
Variants == {"addr", "address"}

\* WeightedSet::pick_one: the set of its possible results
ws_pick_one(v, ws) ==
    IF Len(ws) = 0 THEN {NoPick}
    ELSE LET total == total_weight(ws)
         IN  IF total = 0
             THEN IF v = "addr" THEN choose(ws) ELSE first(ws)
             ELSE {scan(ws, 1, n, n) : n \in 0..(total - 1)}

RECURSIVE Flatten(_)
Flatten(addr) == IF Len(addr) = 0 THEN <<>> ELSE Head(addr) \o Flatten(Tail(addr))

\* a pick among the entries of every level
any_level_pick_one(v, addr) == ws_pick_one(v, Flatten(addr))

\* Address::pick_one: self.at(0).pick_one()
address_pick_one(v, addr) == ws_pick_one(v, at(addr, 0))

\* the addresses of a that no entry of b carries, in a's order
not_found(a, b) ==
    LET Missing(pair) == \A j \in 1..Len(b) : sock(b[j]) # sock(pair)
        kept == SelectSeq(a, Missing)
    IN  [i \in 1..Len(kept) |-> sock(kept[i])]

\* WeightedSet::compare_addresses: (old, new)
compare_addresses(a, b) == <<not_found(a, b), not_found(b, a)>>

\* impl PartialEq for WeightedSet
ws_eq(a, b) ==
    /\ Len(a) = Len(b)
    /\ \A i \in 1..Len(a) : \E j \in 1..Len(b) : a[i] = b[j]
    /\ \A j \in 1..Len(b) : \E i \in 1..Len(a) : b[j] = a[i]

Min(x, y) == IF x <= y THEN x ELSE y

\* impl PartialEq for Address: same length, and zip(..).all(|(s, o)| s == o)
address_eq(a, b) ==
    /\ Len(a) = Len(b)
    /\ \A i \in 1..Min(Len(a), Len(b)) : ws_eq(a[i], b[i])

\* the orders in which a HashSet may hand out its elements
Orders(set) ==
    {f \in [1..Cardinality(set) -> set] :
        \A i, j \in 1..Cardinality(set) : f[i] = f[j] => i = j}

\* impl FromIterator<SocketAddr> for Address: one level, weight 0
from_iter(seq) == << [i \in 1..Len(seq) |-> <<0, seq[i]>>] >>

\* every address of every level of the inputs
union_all_levels(list) ==
    LET set == UNION {addresses(Flatten(list[i])) : i \in 1..Len(list)}
    IN  {from_iter(o) : o \in Orders(set)}

\* union / union_addresses: the set of the Addresses it may return
union(list) ==
    LET set == UNION {addresses(at(list[i], 0)) : i \in 1..Len(list)}
    IN  {from_iter(o) : o \in Orders(set)}

(***************************************************************************)
(* The operations on Addresses, each applied once to inputs drawn at the   *)
(* start                                                                   *)
(***************************************************************************)
\* largest weight of an entry given to pick_one
MaxWeight == 2
\* longest priority level
MaxLevelLen == 3
\* largest priority index asked of at()
MaxPriority == 3
\* longest list given to union
MaxUnion == 2

Socks == {"A", "B"}
\* an address that the inputs carry below priority 0 only
Low == "C"
Levels(pairs, n) == UNION {[1..k -> pairs] : k \in 0..n}

\* no level (a Builder given nothing), one level (a slice or an iterator,
\* maybe empty), or two levels from a Builder, which drops empty levels
WithLower(levels, lower) ==
    {<<>>} \cup {<<l>> : l \in levels}
           \cup {<<l, lo>> : l \in levels \ {<<>>}, lo \in lower}

PickAddrs ==
    WithLower(Levels((0..MaxWeight) \X Socks, MaxLevelLen), {<< <<1, Low>> >>})

CmpSets == Levels({<<0, "A">>, <<1, "A">>, <<0, "B">>}, MaxLevelLen)

EqAddrs ==
    WithLower(Levels({<<0, "A">>, <<0, "B">>, <<1, "A">>}, MaxLevelLen),
              {<< <<0, Low>> >>, << <<1, Low>> >>})

SampleAddrs ==
    { <<>>,
      << << <<1, "A">> >> >>,
      << << <<0, "B">>, <<2, "A">> >> >>,
      << << <<0, "A">>, <<0, "A">> >> >>,
      << << <<0, "B">> >>, << <<0, Low>> >> >>,
      << <<>> >>,
      << << <<1, "A">> >>, << <<0, "B">> >>, << <<0, Low>> >> >> }

Case(op, a, b, p) == [op |-> op, a |-> a, b |-> b, p |-> p]

\* the operation and its inputs; the older pick_one differs from the newer
\* one in nothing that the other operations use
AddrInit ==
    /\ aout = None
    /\ \/ /\ variant \in Variants
          /\ \E a \in PickAddrs : acase = Case("pick_one", a, <<>>, 0)
       \/ /\ variant = "addr"
          /\ \E a \in SampleAddrs, p \in 0..MaxPriority :
                acase = Case("at", a, <<>>, p)
       \/ /\ variant = "addr"
          /\ \E a \in CmpSets, b \in CmpSets :
                acase = Case("compare_addresses", a, b, 0)
       \/ /\ variant = "addr"
          /\ \E a \in EqAddrs, b \in EqAddrs : acase = Case("eq", a, b, 0)
       \/ /\ variant = "addr"
          /\ \E l \in Levels(SampleAddrs, MaxUnion) :
                acase = Case("union", l, <<>>, 0)

\* addr.pick_one()
PickOne ==
    /\ aout = None
    /\ acase.op = "pick_one"
    /\ \E o \in address_pick_one(variant, acase.a) : aout' = Some(o)
    /\ UNCHANGED <<variant, acase>>

\* addr.at(p)
At ==
    /\ aout = None
    /\ acase.op = "at"
    /\ aout' = Some(at(acase.a, acase.p))
    /\ UNCHANGED <<variant, acase>>

\* a.compare_addresses(&b)
CompareAddresses ==
    /\ aout = None
    /\ acase.op = "compare_addresses"
    /\ aout' = Some(compare_addresses(acase.a, acase.b))
    /\ UNCHANGED <<variant, acase>>

\* a == b
Eq ==
    /\ aout = None
    /\ acase.op = "eq"
    /\ aout' = Some(address_eq(acase.a, acase.b))
    /\ UNCHANGED <<variant, acase>>

\* union(list)
UnionOf ==
    /\ aout = None
    /\ acase.op = "union"
    /\ \E o \in union(acase.a) : aout' = Some(o)
    /\ UNCHANGED <<variant, acase>>

\* no Address operation under way
AddrIdle ==
    /\ variant = "addr"
    /\ acase = Case("none", <<>>, <<>>, 0)
    /\ aout = None

(***************************************************************************)
(* Union (src/src/union.rs): one stream made of several input streams      *)
(***************************************************************************)
\* largest number of input streams
MaxInputs == 2

\* items that the input streams yield
UItems ==
    { <<>>,
      << << <<1, "A">> >> >>,
      << << <<0, "B">> >>, << <<0, Low>> >> >> }
\* errors that the input streams yield
UErrors == {"NameNotFound", "TemporaryError"}

\* what s.poll() of an input gives
SNotReady == [kind |-> "NotReady", item |-> <<>>, err |-> "-"]
SEnd == [kind |-> "End", item |-> <<>>, err |-> "-"]
SItem(a) == [kind |-> "Item", item |-> a, err |-> "-"]
SErr(e) == [kind |-> "Err", item |-> <<>>, err |-> e]
Responses ==
    {SNotReady, SEnd} \cup {SItem(a) : a \in UItems} \cup {SErr(e) : e \in UErrors}

\* a slot that keeps the first item it was given
slot_keep_first(old, a) == IF IsSome(old) THEN old ELSE Some(a)

\* Async::Ready(Some(a)) => self.buf[i] = Some(a)
slot_on_item(old, a) == Some(a)

\* a slot that is emptied
slot_cleared(old) == None

\* Async::Ready(None) => {}
slot_on_end(old) == old

\* the slots that this poll has set
changed_slots(buf, changed) == changed

\* self.buf.iter().filter_map(|x| x.as_ref()): every slot that holds an item
filled_slots(buf, changed) == {i \in 1..Len(buf) : IsSome(buf[i])}

\* an error that is passed over when a slot has been set in this poll
err_unless_changed(buf, changed, e) ==
    [buf |-> buf, changed |-> changed,
     err |-> IF changed = {} THEN Some(e) ELSE None]

\* s.poll()? on Err(e): the poll returns Err(e) at once
try_err(buf, changed, e) == [buf |-> buf, changed |-> changed, err |-> Some(e)]

\* end-of-stream once every input has ended
end_when_all_ended(streams) ==
    IF \A i \in DOMAIN streams : streams[i] = "ended" THEN "End" ELSE "NotReady"

\* if !changed { return Ok(Async::NotReady) }, whatever state the inputs
\* are in
when_unchanged(streams) == "NotReady"

\* the for loop of Union::poll from input i on; s.poll()? leaves the loop
\* and the poll at the first error
RECURSIVE poll_loop(_, _, _, _)
poll_loop(buf, resp, i, changed) ==
    IF i > Len(buf) THEN [buf |-> buf, changed |-> changed, err |-> None]
    ELSE IF resp[i].kind = "Err"
         THEN try_err(buf, changed, resp[i].err)
    ELSE IF resp[i].kind = "Item"
         THEN poll_loop([buf EXCEPT ![i] = slot_on_item(buf[i], resp[i].item)],
                        resp, i + 1, changed \cup {i})
    ELSE IF resp[i].kind = "End"
         THEN poll_loop([buf EXCEPT ![i] = slot_on_end(buf[i])],
                        resp, i + 1, changed)
    ELSE poll_loop(buf, resp, i + 1, changed)

\* the items of a set of slots, in slot order
RECURSIVE slot_items(_, _, _)
slot_items(buf, slots, i) ==
    IF i > Len(buf) THEN <<>>
    ELSE (IF i \in slots THEN <<Unwrap(buf[i])>> ELSE <<>>)
         \o slot_items(buf, slots, i + 1)

\* union_addresses(iter): the set of the Addresses it may return
union_addresses(list) ==
    LET set == UNION {addresses(at(list[i], 0)) : i \in 1..Len(list)}
    IN  {from_iter(o) : o \in Orders(set)}

\* what Union::poll returns, with the inputs that yielded an item in that
\* poll, those that signalled their end in it, those whose last item was
\* still to be shown when it began, and the errors the inputs answered
UNone == [kind |-> "none", item |-> <<>>, err |-> "-",
          yielded |-> {}, ended |-> {}, carried |-> {}, failed |-> {}]
UResult(kind, item, err, yielded, ended, carried, failed) ==
    [kind |-> kind, item |-> item, err |-> err,
     yielded |-> yielded, ended |-> ended, carried |-> carried,
     failed |-> failed]

\* the inputs that this poll polls: up to the first that answers an error
Polled(resp) ==
    {i \in DOMAIN resp : \A j \in DOMAIN resp : j < i => resp[j].kind # "Err"}

\* the level-0 addresses of an Address
Level0(a) == IF Len(a) = 0 THEN {} ELSE addresses(a[1])

\* union_stream(streams): buf = vec![None; streams.len()]
UnionInit ==
    /\ \E n \in 0..MaxInputs :
         /\ ustreams = [i \in 1..n |-> "open"]
         /\ ubuf = [i \in 1..n |-> None]
         /\ ulatest = [i \in 1..n |-> None]
    /\ upending = {}
    /\ ulast = UNone

\* Union::poll, the inputs answering resp; an input that has ended answers
\* end-of-stream again, and an input that is not polled is not asked
UnionPoll(resp) ==
    /\ DOMAIN resp = DOMAIN ustreams
    /\ \A i \in DOMAIN resp :
         /\ ustreams[i] = "ended" => resp[i].kind = "End"
         /\ i \notin Polled(resp) => resp[i] = SNotReady
    /\ LET r == poll_loop(ubuf, resp, 1, {})
           polled == Polled(resp)
           yielded == {i \in polled : resp[i].kind = "Item"}
           ended == {i \in polled : resp[i].kind = "End" /\ ustreams[i] = "open"}
           latest == [i \in DOMAIN resp |->
                        IF i \in yielded THEN Some(resp[i].item) ELSE ulatest[i]]
           waiting == upending \cup yielded
           failed == {resp[i].err : i \in {j \in polled : resp[j].kind = "Err"}}
           streams == [i \in DOMAIN resp |->
                         IF i \in ended THEN "ended" ELSE ustreams[i]]
       IN  /\ ubuf' = r.buf
           /\ ustreams' = streams
           /\ ulatest' = latest
           /\ IF IsSome(r.err)
              THEN /\ ulast' = UResult("Err", <<>>, Unwrap(r.err),
                                       yielded, ended, upending, failed)
                   /\ upending' = waiting
              ELSE IF r.changed = {}
              THEN /\ ulast' = UResult(when_unchanged(streams), <<>>, "-",
                                       yielded, ended, upending, failed)
                   /\ upending' = waiting
              ELSE \E a \in union_addresses(
                              slot_items(r.buf, filled_slots(r.buf, r.changed), 1)) :
                   /\ ulast' = UResult("Item", a, "-", yielded, ended, upending,
                                       failed)
                   /\ upending' = {i \in waiting :
                                     ~ (Level0(Unwrap(latest[i])) \subseteq Level0(a))}

\* no Union at work
UnionIdle ==
    /\ ustreams = <<>>
    /\ ubuf = <<>>
    /\ ulatest = <<>>
    /\ upending = {}
    /\ ulast = UNone

(***************************************************************************)
(* Builder (src/src/addr.rs)                                               *)
(***************************************************************************)
\* largest number of add_addresses calls on one Builder
MaxCalls == 3

\* the sets passed to add_addresses
BuilderSets ==
    { <<>>,
      << <<0, "A">> >>,
      << <<1, "B">> >>,
      << <<0, "A">>, <<1, "B">> >> }

\* Builder::new: addresses: vec![Vec::new()]
builder_new == << <<>> >>

\* the items added to the last level of the builder
add_merged(levels, items) ==
    [levels EXCEPT ![Len(levels)] = levels[Len(levels)] \o items]

\* Builder::add_addresses: self.addresses.push(items..collect())
add_addresses(levels, items) == Append(levels, items)

\* Builder::into_address: the levels that are not empty
into_address(levels) ==
    LET NotEmpty(l) == Len(l) > 0
    IN  SelectSeq(levels, NotEmpty)

BuilderInit ==
    /\ bphase = "building"
    /\ baddresses = builder_new
    /\ bcalls = <<>>
    /\ baddr = None

\* builder.add_addresses(items)
AddAddresses(items) ==
    /\ bphase = "building"
    /\ Len(bcalls) < MaxCalls
    /\ baddresses' = add_addresses(baddresses, items)
    /\ bcalls' = Append(bcalls, items)
    /\ UNCHANGED <<bphase, baddr>>

\* builder.into_address(): the builder is consumed
IntoAddress ==
    /\ bphase = "building"
    /\ bphase' = "built"
    /\ baddr' = Some(into_address(baddresses))
    /\ UNCHANGED <<baddresses, bcalls>>

\* no Builder at work
BuilderIdle ==
    /\ bphase = "none"
    /\ baddresses = <<>>
    /\ bcalls = <<>>
    /\ baddr = None

(***************************************************************************)
(* Name: from_str and Display (src/src/name.rs)                            *)
(***************************************************************************)
\* longest string given to Name::from_str
MaxNameLen == 4
\* u16::MAX, the largest default port
U16Max == 65535

Colon == ":"
Digits == <<"0", "1", "2", "3", "4", "5", "6", "7", "8", "9">>
\* the characters of the strings parsed: a lower-case letter, two digits,
\* dash, underscore, dot, colon, and "A" for a character that is not a
\* lower-case ASCII letter (upper case or outside ASCII)
NameChars == {"a", "0", "1", "-", "_", Dot, Colon, "A"}

IsDigit(c) == \E d \in 1..Len(Digits) : Digits[d] = c
DigitVal(c) == (CHOOSE d \in 1..Len(Digits) : Digits[d] = c) - 1

\* what Name::from_str returns
NameOk(host, port) == [tag |-> "Ok", host |-> host, port |-> port, err |-> "-"]
NameErr(e) == [tag |-> "Err", host |-> <<>>, port |-> None, err |-> e]

\* str::parse::<u16>: decimal digits, at least one, the value within u16
\* (a leading "+" is accepted too; no string parsed here carries one)
RECURSIVE DecimalValue(_)
DecimalValue(s) ==
    IF Len(s) = 0 THEN 0
    ELSE DecimalValue(SliceTo(s, Len(s) - 1)) * 10 + DigitVal(s[Len(s)])

parse_u16(s) ==
    IF Len(s) = 0 \/ \E i \in 1..Len(s) : ~ IsDigit(s[i]) THEN None
    ELSE IF DecimalValue(s) > U16Max THEN None
    ELSE Some(DecimalValue(s))

\* the decimal digits of a number, as write!(f, "{}", p) prints them
RECURSIVE to_decimal(_)
to_decimal(n) ==
    IF n < 10 THEN <<Digits[n + 1]>>
    ELSE to_decimal(n \div 10) \o <<Digits[(n % 10) + 1]>>

\* value.splitn(2, ':'): the text before the first colon, and the rest
splitn2(value) ==
    IF \A i \in 1..Len(value) : value[i] # Colon THEN <<value>>
    ELSE LET i == CHOOSE i \in 1..Len(value) :
                    value[i] = Colon /\ \A j \in 1..(i - 1) : value[j] # Colon
         IN  <<SliceTo(value, i - 1), SliceFrom(value, i)>>

\* impl FromStr for Name
from_str(value) ==
    LET pair == splitn2(value)
        name == pair[1]
    IN  IF Len(pair) = 2 /\ parse_u16(pair[2]) = None THEN NameErr("InvalidPort")
        ELSE LET port == IF Len(pair) = 2 THEN parse_u16(pair[2]) ELSE None
             IN  IF namecheck(name) # "Ok" THEN NameErr(namecheck(name))
                 ELSE NameOk(name, port)

\* the host alone
display_host_only(n) == n.host

\* impl Display for Name
display(n) ==
    IF IsSome(n.port) THEN n.host \o <<Colon>> \o to_decimal(Unwrap(n.port))
    ELSE n.host

\* longer strings: a port with a leading zero, the largest port, and the
\* first number that is not a u16
LongNames ==
    { <<"a", Dot, "a", Colon, "0", "8", "0">>,
      <<"a", Colon, "6", "5", "5", "3", "5">>,
      <<"a", Colon, "6", "5", "5", "3", "6">> }

NameInit ==
    /\ nsrc \in Strings(NameChars, MaxNameLen) \cup LongNames
    /\ nparsed = None
    /\ nshown = None
    /\ nreparsed = None

\* nsrc.parse::<Name>()
FromStr ==
    /\ nparsed = None
    /\ nparsed' = Some(from_str(nsrc))
    /\ UNCHANGED <<nsrc, nshown, nreparsed>>

\* name.to_string()
Display ==
    /\ IsSome(nparsed)
    /\ Unwrap(nparsed).tag = "Ok"
    /\ nshown = None
    /\ nshown' = Some(display(Unwrap(nparsed)))
    /\ UNCHANGED <<nsrc, nparsed, nreparsed>>

\* the displayed name, parsed again
Reparse ==
    /\ IsSome(nshown)
    /\ nreparsed = None
    /\ nreparsed' = Some(from_str(Unwrap(nshown)))
    /\ UNCHANGED <<nsrc, nparsed, nshown>>

\* no Name being parsed
NameIdle ==
    /\ nsrc = <<>>
    /\ nparsed = None
    /\ nshown = None
    /\ nreparsed = None

(***************************************************************************)
(* NullResolver and NullHostResolver (src/src/combinators.rs)              *)
(***************************************************************************)
\* what HostResolve::resolve_host gives: a list of IPs, or an error
HostOk(ip) == [tag |-> "Ok", ip |-> ip, port |-> 0, err |-> "-"]
\* what the wrapped resolver may answer to resolve_host
HostOutcomes == {HostOk("127.0.0.2"), Err("NameNotFound"), Err("TemporaryError")}
\* the names asked of the wrappers
NullNames ==
    {[host |-> h, port |-> p] : h \in {<<"a">>, <<"a", Dot, "a">>}, p \in Ports}

\* what a call made and gave: the methods of the wrapped resolver it
\* invoked, and the result
Answered(invoked, returned) == [invoked |-> invoked, returned |-> returned]

\* self.resolver.resolve(name)
inner_resolve(name, o) == Answered(<<"resolve">>, o.resolve)

\* self.resolver.resolve_host(name)
inner_resolve_host(name, o) == Answered(<<"resolve_host">>, o.resolve_host)

\* impl Resolve for NullResolver: err(Error::NameNotFound)
NullResolver_resolve(name, o) == Answered(<<>>, Err("NameNotFound"))

\* impl HostResolve for NullResolver: the wrapped resolver's resolve_host
NullResolver_resolve_host(name, o) == inner_resolve_host(name, o)

\* impl Resolve for NullHostResolver: the wrapped resolver's resolve
NullHostResolver_resolve(name, o) == inner_resolve(name, o)

\* impl HostResolve for NullHostResolver: err(Error::NameNotFound)
NullHostResolver_resolve_host(name, o) == Answered(<<>>, Err("NameNotFound"))

\* HostResolve::null_service_resolver or Resolve::null_host_resolver
NullInit ==
    /\ wrapper \in {"NullResolver", "NullHostResolver"}
    /\ wlast = None

WCall(op, name, o, a) ==
    [op |-> op, name |-> name, inner |-> o,
     invoked |-> a.invoked, returned |-> a.returned]

\* wrapper.resolve(&name), the wrapped resolver answering as o says
NullResolve(name, o) ==
    /\ wlast = None
    /\ wlast' = Some(WCall("resolve", name, o,
                      IF wrapper = "NullResolver"
                      THEN NullResolver_resolve(name, o)
                      ELSE NullHostResolver_resolve(name, o)))
    /\ UNCHANGED wrapper

\* wrapper.resolve_host(&name)
NullResolveHost(name, o) ==
    /\ wlast = None
    /\ wlast' = Some(WCall("resolve_host", name, o,
                      IF wrapper = "NullResolver"
                      THEN NullResolver_resolve_host(name, o)
                      ELSE NullHostResolver_resolve_host(name, o)))
    /\ UNCHANGED wrapper

\* no wrapper at work
NullIdle ==
    /\ wrapper = "-"
    /\ wlast = None

RestIdle == BuilderIdle /\ NameIdle /\ NullIdle

StreamIdle ==
    /\ impl = "stream_once"
    /\ future = None
    /\ inner = Pending
    /\ polls = <<>>

RouterIdle == RouterInit

InitRouter == RouterInit /\ StreamIdle /\ AddrIdle /\ UnionIdle /\ RestIdle

NextRouter ==
    \/ \E k \in ExactKeys, ip \in IPs : add_ip(k, ip) /\ UNCHANGED <<streamVars, addrVars, unionVars, restVars>>
    \/ \E s \in SuffixKeys, r \in Resolvers : add_suffix(s, r) /\ UNCHANGED <<streamVars, addrVars, unionVars, restVars>>
    \/ \E r \in Resolvers : add_default(r) /\ UNCHANGED <<streamVars, addrVars, unionVars, restVars>>
    \/ into_resolver /\ UNCHANGED <<streamVars, addrVars, unionVars, restVars>>
    \/ \E n \in Names, o \in [Resolvers -> ExtOutcomes] :
           resolve(n, o) /\ UNCHANGED <<streamVars, addrVars, unionVars, restVars>>
    \/ \E n \in Names, o \in [Resolvers -> ExtOutcomes] :
           subscribe(n, o) /\ UNCHANGED <<streamVars, addrVars, unionVars, restVars>>
    \/ drop_result /\ UNCHANGED <<streamVars, addrVars, unionVars, restVars>>

SpecRouter == InitRouter /\ [][NextRouter]_vars

\* StreamOnce::new(future), or FrozenSubscriber::subscribe: the future may be
\* pending or, like failed(..) and ok(..), complete from the start
InitStream ==
    /\ RouterIdle
    /\ AddrIdle
    /\ UnionIdle
    /\ RestIdle
    /\ impl \in {"stream_once", "combinators"}
    /\ future = Some("F")
    /\ inner \in {Pending} \cup {Ready(o) : o \in Outcomes}
    /\ polls = <<>>

NextStream ==
    \/ \E c \in AfterCompletion : StreamOncePoll(c) /\ UNCHANGED <<routerVars, addrVars, unionVars, restVars>>
    \/ \E c \in AfterCompletion : CombinatorsPoll(c) /\ UNCHANGED <<routerVars, addrVars, unionVars, restVars>>
    \/ \E o \in Outcomes : Complete(o) /\ UNCHANGED <<routerVars, addrVars, unionVars, restVars>>

SpecStream == InitStream /\ [][NextStream]_vars

\* the Address operations, each on inputs of its own
InitAddr == RouterIdle /\ StreamIdle /\ UnionIdle /\ RestIdle /\ AddrInit

NextAddr ==
    \/ PickOne /\ UNCHANGED <<routerVars, streamVars, unionVars, restVars>>
    \/ At /\ UNCHANGED <<routerVars, streamVars, unionVars, restVars>>
    \/ CompareAddresses /\ UNCHANGED <<routerVars, streamVars, unionVars, restVars>>
    \/ Eq /\ UNCHANGED <<routerVars, streamVars, unionVars, restVars>>
    \/ UnionOf /\ UNCHANGED <<routerVars, streamVars, unionVars, restVars>>

SpecAddr == InitAddr /\ [][NextAddr]_vars

\* a Union over up to MaxInputs input streams, polled again and again
InitUnion == RouterIdle /\ StreamIdle /\ AddrIdle /\ RestIdle /\ UnionInit

NextUnion ==
    \E resp \in UNION {[1..n -> Responses] : n \in 0..MaxInputs} :
        UnionPoll(resp) /\ UNCHANGED <<routerVars, streamVars, addrVars, restVars>>

SpecUnion == InitUnion /\ [][NextUnion]_vars

\* everything but the Builder, the Name parser and the null wrappers
coreVars == <<routerVars, streamVars, addrVars, unionVars>>
CoreIdle == RouterIdle /\ StreamIdle /\ AddrIdle /\ UnionIdle

\* a Builder, given sets of addresses and then turned into an Address
InitBuilder == CoreIdle /\ NameIdle /\ NullIdle /\ BuilderInit

NextBuilder ==
    \/ \E items \in BuilderSets :
          AddAddresses(items) /\ UNCHANGED <<coreVars, nameVars, nullVars>>
    \/ IntoAddress /\ UNCHANGED <<coreVars, nameVars, nullVars>>

SpecBuilder == InitBuilder /\ [][NextBuilder]_vars

\* a string parsed as a Name, displayed and parsed again
InitName == CoreIdle /\ BuilderIdle /\ NullIdle /\ NameInit

NextName ==
    \/ FromStr /\ UNCHANGED <<coreVars, builderVars, nullVars>>
    \/ Display /\ UNCHANGED <<coreVars, builderVars, nullVars>>
    \/ Reparse /\ UNCHANGED <<coreVars, builderVars, nullVars>>

SpecName == InitName /\ [][NextName]_vars

\* one call on a null wrapper around a resolver
InitNull == CoreIdle /\ BuilderIdle /\ NameIdle /\ NullInit

NextNull ==
    \/ \E n \in NullNames, o \in [resolve : ExtOutcomes, resolve_host : HostOutcomes] :
          NullResolve(n, o) /\ UNCHANGED <<coreVars, builderVars, nameVars>>
    \/ \E n \in NullNames, o \in [resolve : ExtOutcomes, resolve_host : HostOutcomes] :
          NullResolveHost(n, o) /\ UNCHANGED <<coreVars, builderVars, nameVars>>

SpecNull == InitNull /\ [][NextNull]_vars

(***************************************************************************)
(* What the claims speak of                                                *)
(***************************************************************************)
Called == last # None
TheCall == Unwrap(last)
Host == TheCall.name.host

\* suffix s ends host h, character by character
EndsWithStr(h, s) ==
    Len(h) >= Len(s) /\ SubSeq(h, Len(h) - Len(s) + 1, Len(h)) = s

\* suffix s matches host h at a label boundary
Matches(s, h) ==
    \/ h = s
    \/ Len(h) > Len(s) /\ EndsWithStr(h, s) /\ h[Len(h) - Len(s)] = Dot

Matching(h) == {s \in DOMAIN suffixes : Matches(s, h)}
Longest(S) == CHOOSE s \in S : \A t \in S : Len(t) <= Len(s)

\* what n polls of the stream StreamOnce::new(future) return
RECURSIVE PollTrace(_, _, _)
PollTrace(fut, inn, n) ==
    IF n = 0 THEN <<>>
    ELSE LET r == stream_once_poll(fut, inn, "panic")
         IN <<r.ret>> \o PollTrace(r.future, r.inner, n - 1)

\* the polls of a stream whose only item is outcome o
OnlyItem(o, n) ==
    [i \in 1..n |-> IF i = 1 THEN Ret("Item", o) ELSE Ret("NotReady", NoOutcome)]

\* C1: a name whose host is a key of the exact-name table is answered by the
\* in-memory resolver and by nothing else, whatever the suffix table holds.
C1_ExactNameWins ==
    (Called /\ Host \in DOMAIN names) =>
        /\ TheCall.kind = "exact"
        /\ TheCall.invoked = <<"mem">>
        /\ TheCall.returned = MemResolve(TheCall.name)

C1_Witness ==
    /\ Called
    /\ Host \in DOMAIN names
    /\ Host \in DOMAIN suffixes
    /\ \E s \in Matching(Host) : s # Host
    /\ IsSome(fallback)

\* C2: a host that is no exact name and matches several suffixes goes to the
\* resolver registered for the longest of them.
C2_LongestSuffixWins ==
    (Called /\ Host \notin DOMAIN names /\ Matching(Host) # {}) =>
        /\ TheCall.kind = "suffix"
        /\ TheCall.key = Longest(Matching(Host))
        /\ TheCall.invoked = <<suffixes[Longest(Matching(Host))]>>

C2_Witness ==
    /\ Called
    /\ Host \notin DOMAIN names
    /\ Host \notin DOMAIN suffixes
    /\ \E s, t \in Matching(Host) : Len(s) < Len(t) /\ suffixes[s] # suffixes[t]
    /\ TheCall.key = Longest(Matching(Host))

\* C3: the fallback is the target exactly when the host is no exact name,
\* matches no suffix and a fallback is configured.
C3_FallbackIff ==
    Called =>
        /\ TheCall.kind = "fallback" <=>
               /\ Host \notin DOMAIN names
               /\ Matching(Host) = {}
               /\ IsSome(fallback)
        /\ TheCall.kind = "fallback" => TheCall.invoked = <<Unwrap(fallback)>>
        /\ Len(TheCall.invoked) <= 1

C3_Witness ==
    /\ Called
    /\ TheCall.kind = "fallback"
    /\ DOMAIN suffixes # {}
    /\ DOMAIN names # {}
    /\ \E i \in 1..Len(Host) : Host[i] = Dot

\* C4: the Router fails with NameNotFound by itself exactly when the host is no
\* exact name, matches no suffix and there is no fallback; subscribe then
\* returns a stream whose only item is that error.
C4_NameNotFoundIff ==
    Called =>
        /\ TheCall.kind = "none" <=>
               /\ Host \notin DOMAIN names
               /\ Matching(Host) = {}
               /\ fallback = None
        /\ TheCall.kind = "none" =>
               /\ TheCall.invoked = <<>>
               /\ TheCall.returned = Err("NameNotFound")
               /\ TheCall.op = "subscribe" =>
                      /\ TheCall.stream = "StreamOnce"
                      /\ PollTrace(Some("F"), Ready(TheCall.returned), MaxPolls)
                             = OnlyItem(Err("NameNotFound"), MaxPolls)
        /\ TheCall.kind # "none" =>
               /\ TheCall.returned = TheCall.produced
               /\ TheCall.stream # "StreamOnce"

C4_Witness ==
    /\ Called
    /\ TheCall.kind = "none"
    /\ TheCall.op = "subscribe"
    /\ DOMAIN suffixes # {}
    /\ DOMAIN names # {}

\* C5: a name is routed to the resolver of suffix s only if its host is s or
\* ends with a dot followed by s.
C5_LabelBoundary ==
    (Called /\ TheCall.kind = "suffix") =>
        /\ TheCall.key \in DOMAIN suffixes
        /\ Matches(TheCall.key, Host)

C5_Witness ==
    /\ Called
    /\ \E s \in DOMAIN suffixes :
           /\ Len(s) > 0
           /\ EndsWithStr(Host, s)
           /\ ~ Matches(s, Host)
           /\ Matching(Host) = {}
    /\ TheCall.kind \in {"fallback", "none"}

\* the target the call went to
CallTarget ==
    Target(TheCall.kind, TheCall.key,
           IF TheCall.invoked = <<>> THEN "-" ELSE TheCall.invoked[1])

\* C6: whatever the tables and the name, the target a subscribe call goes to
\* is the target resolve selects for that name, and the other way round.
C6_SubscribeAsResolve ==
    Called =>
        /\ TheCall.op = "subscribe" => CallTarget = resolve_target(Host)
        /\ TheCall.op = "resolve" => CallTarget = subscribe_target(Host)

C6_Witness ==
    /\ Called
    /\ TheCall.op = "subscribe"
    /\ TheCall.kind = "suffix"
    /\ TheCall.key # Host
    /\ DOMAIN names # {}
    /\ IsSome(fallback)

\* C7: what an exact or suffix resolver answers, errors included, is what the
\* caller gets, and no second resolver is called.
C7_NoSecondResolver ==
    (Called /\ TheCall.kind \in {"exact", "suffix"}) =>
        /\ TheCall.returned = TheCall.produced
        /\ TheCall.invoked =
               <<IF TheCall.kind = "exact" THEN "mem" ELSE suffixes[TheCall.key]>>

C7_Witness ==
    /\ Called
    /\ TheCall.kind = "suffix"
    /\ TheCall.returned = Err("NameNotFound")
    /\ IsSome(fallback)
    /\ Unwrap(fallback) # suffixes[TheCall.key]

\* C8: the suffix table holds, for every suffix, the resolver of the last
\* add_suffix call made with it, and that is the resolver a name routed by
\* the suffix is sent to.
C8_LastRegistrationWins ==
    /\ suffixes = lastSuffixCall
    /\ (Called /\ TheCall.kind = "suffix") =>
           TheCall.invoked = <<lastSuffixCall[TheCall.key]>>

C8_Witness ==
    /\ Called
    /\ TheCall.kind = "suffix"
    /\ TheCall.key \in overwritten

\* the hosts of the call before and of the call after a step
StepHosts ==
    (IF last # None THEN {Unwrap(last).name.host} ELSE {})
        \cup (IF last' # None THEN {Unwrap(last').name.host} ELSE {})

FoundComplete(i) == polls[i].innerWas # "pending"

C10_YieldsExactlyOnce ==
    \A i \in 1..Len(polls) :
        IF FoundComplete(i) /\ \A j \in 1..(i - 1) : ~ FoundComplete(j)
        THEN polls[i].kind = "Item" /\ polls[i].out = inner.out
        ELSE polls[i].kind = "NotReady"

(***************************************************************************)
(* What the claims about Union and Address speak of                        *)
(***************************************************************************)
\* the Union's last poll emitted an item
Emitted == ulast.kind = "Item"
\* the addresses of the emitted Address (of its only level)
EmittedAddrs == Level0(ulast.item)
\* the inputs that have yielded at least once
Yielders == {i \in DOMAIN ulatest : IsSome(ulatest[i])}
\* the level-0 addresses of the last item of input i
LastLevel0(i) == Level0(Unwrap(ulatest[i]))

\* the Address operation op has been applied
Applied(op) == acase.op = op /\ aout # None
Out == aout[1]
\* priority level 0 of the Address the operation was applied to
Top == IF Len(acase.a) = 0 THEN <<>> ELSE acase.a[1]

RECURSIVE WeightBefore(_, _)
\* the weights of the entries before entry i, added up
WeightBefore(ws, i) ==
    IF i <= 1 THEN 0 ELSE WeightBefore(ws, i - 1) + ws[i - 1][1]
TotalWeight(ws) == WeightBefore(ws, Len(ws) + 1)

Range(s) == {s[i] : i \in 1..Len(s)}
NoDuplicates(s) == \A i, j \in 1..Len(s) : s[i] = s[j] => i = j
Count(s, x) == Cardinality({i \in 1..Len(s) : s[i] = x})
SameMultiset(x, y) == \A e \in Range(x) \cup Range(y) : Count(x, e) = Count(y, e)
\* where address x first stands in the level ws
FirstAt(ws, x) == CHOOSE i \in 1..Len(ws) : ws[i][2] = x /\ \A j \in 1..(i - 1) : ws[j][2] # x
\* list holds exactly the addresses of x that y lacks, once each, in x's order
OrderedDifference(list, x, y) ==
    /\ Range(list) = addresses(x) \ addresses(y)
    /\ NoDuplicates(list)
    /\ \A i, j \in 1..Len(list) : i < j => FirstAt(x, list[i]) < FirstAt(x, list[j])

(***************************************************************************)
(* Claims about Union                                                      *)
(***************************************************************************)
\* C11: a poll in which no input errors emits an item exactly when at
\* least one input yielded an item in that poll, and the emitted Address
\* holds the level-0 addresses of the last item of every input that has
\* yielded at least once, changed in this poll or not; otherwise the poll
\* reports NotReady and emits nothing
C11_EmitsIffChanged ==
    ulast.kind \in {"Item", "NotReady"} =>
        /\ Emitted <=> ulast.yielded # {}
        /\ Emitted =>
             /\ Len(ulast.item) = 1
             /\ EmittedAddrs = UNION {LastLevel0(i) : i \in Yielders}
        /\ ~ Emitted => ulast.item = <<>>

\* an emission that holds addresses of an input that did not yield in that
\* poll
C11_Witness ==
    /\ Emitted
    /\ \E i \in Yielders : i \notin ulast.yielded /\ LastLevel0(i) # {}

\* C12: the slot of an input that has ended keeps the last Address the
\* input yielded, every union emitted after the end holds that Address's
\* level-0 addresses, and a poll in which inputs end but none yields emits
\* nothing
C12_EndedInputKeepsSlot ==
    /\ \A i \in DOMAIN ustreams :
         ustreams[i] = "ended" =>
            /\ ubuf[i] = ulatest[i]
            /\ Emitted /\ i \in Yielders => LastLevel0(i) \subseteq EmittedAddrs
    /\ ulast.ended # {} /\ ulast.yielded = {} => ~ Emitted

\* an emission that holds the addresses of an input that ended in an
\* earlier poll
C12_Witness ==
    /\ Emitted
    /\ \E i \in Yielders :
         /\ ustreams[i] = "ended"
         /\ i \notin ulast.ended
         /\ LastLevel0(i) # {}
         /\ LastLevel0(i) \subseteq EmittedAddrs

\* C13: every item the Union has consumed is held in its slot until an
\* emission shows it, and each emission shows the last consumed item of
\* every input: after an emission no consumed item is left unshown
C13_ConsumedItemEmitted ==
    /\ \A i \in upending : ubuf[i] = ulatest[i]
    /\ Emitted => upending = {}
    /\ Emitted => \A i \in Yielders : LastLevel0(i) \subseteq EmittedAddrs

\* an emission that shows an item consumed in an earlier poll, which ended
\* without emitting
C13_Witness ==
    /\ Emitted
    /\ \E i \in ulast.carried :
         /\ i \notin ulast.yielded
         /\ LastLevel0(i) # {}
         /\ LastLevel0(i) \subseteq EmittedAddrs

(***************************************************************************)
(* Claims about Address                                                    *)
(***************************************************************************)
\* C14: pick_one returns None exactly when priority level 0 is empty or
\* absent; otherwise it returns the address of an entry of level 0, and on
\* an Address of one level with one entry it returns that entry
C14_PickOneFromLevelZero ==
    Applied("pick_one") =>
        /\ Out.kind = "None" <=> Len(Top) = 0
        /\ Len(Top) > 0 => Out.kind = "Some" /\ Out.sock \in addresses(Top)
        /\ Len(acase.a) = 1 /\ Len(Top) = 1 =>
             Out.kind = "Some" /\ Out.sock = Top[1][2]

\* a pick from level 0 of an Address that has another address below it
C14_Witness ==
    /\ Applied("pick_one")
    /\ Len(acase.a) = 2
    /\ Len(Top) >= 2
    /\ Out.kind = "Some"
    /\ Out.idx = 2

\* C15: when level 0 has positive total weight T, pick_one draws n in
\* [0, T) and returns the first entry, in stored order, whose weight is
\* above what is left of n after the weights before it; entry i is the
\* result of exactly weight_i of the T draws, and no draw falls through
C15_WeightedScan ==
    Applied("pick_one") /\ TotalWeight(Top) > 0 =>
        /\ Out.kind = "Some"
        /\ Out.drawn
        /\ Out.n \in 0..(TotalWeight(Top) - 1)
        /\ Out.n - WeightBefore(Top, Out.idx) < Top[Out.idx][1]
        /\ \A j \in 1..(Out.idx - 1) : Out.n - WeightBefore(Top, j) >= Top[j][1]
        /\ \A i \in 1..Len(Top) :
             Cardinality({o \in address_pick_one(variant, acase.a) : o.idx = i})
                = Top[i][1]
        /\ \A o \in address_pick_one(variant, acase.a) : o.kind = "Some"

\* a draw that passes an entry of weight zero and one of positive weight
C15_Witness ==
    /\ Applied("pick_one")
    /\ Len(Top) = 3
    /\ Top[1][1] = 0
    /\ Top[2][1] > 0
    /\ Out.kind = "Some"
    /\ Out.idx = 3

\* C16: when level 0 is not empty and all its weights are zero, every
\* entry of level 0 is a possible result of pick_one
C16_ZeroWeightsAnyEntry ==
    acase.op = "pick_one" /\ Len(Top) > 0 /\ TotalWeight(Top) = 0 =>
        \A i \in 1..Len(Top) :
            \E o \in address_pick_one(variant, acase.a) :
                o.kind = "Some" /\ o.idx = i

\* C17: at(p) returns the level stored at 0-based position p when p is
\* below the number of levels, and an empty set otherwise
C17_AtInRangeOrEmpty ==
    Applied("at") =>
        Out = IF acase.p < Len(acase.a) THEN acase.a[acase.p + 1] ELSE <<>>

\* at() asked for the first priority that the Address does not have
C17_Witness ==
    /\ Applied("at")
    /\ Len(acase.a) >= 2
    /\ acase.p = Len(acase.a)
    /\ Out = <<>>

\* C18: compare_addresses returns (removed, added): removed holds exactly
\* the addresses of a that b lacks, added those of b that a lacks, weights
\* ignored, each in the stored order of its source and without duplicates
C18_CompareAddresses ==
    Applied("compare_addresses") =>
        /\ OrderedDifference(Out[1], acase.a, acase.b)
        /\ OrderedDifference(Out[2], acase.b, acase.a)

\* C19: two Addresses compare equal exactly when they have the same
\* number of levels and, level by level, the same multiset of
\* (weight, address) pairs
C19_EqualIffSameMultisets ==
    Applied("eq") =>
        (Out <=> /\ Len(acase.a) = Len(acase.b)
                 /\ \A i \in 1..Len(acase.a) :
                      SameMultiset(acase.a[i], acase.b[i]))

\* C20: union returns an Address of exactly one level that holds exactly
\* the level-0 addresses of the inputs, each once and all with one weight
C20_UnionOfLevelZero ==
    Applied("union") =>
        /\ Len(Out) = 1
        /\ addresses(Out[1]) = UNION {Level0(acase.a[i]) : i \in 1..Len(acase.a)}
        /\ NoDuplicates(Out[1])
        /\ Len(Out[1]) = Cardinality(addresses(Out[1]))
        /\ \A i, j \in 1..Len(Out[1]) : Out[1][i][1] = Out[1][j][1]

\* a union of two Addresses that share an address, one of them with
\* addresses below level 0
C20_Witness ==
    /\ Applied("union")
    /\ Len(acase.a) = 2
    /\ Level0(acase.a[1]) \cap Level0(acase.a[2]) # {}
    /\ Len(acase.a[1]) = 3
    /\ Len(Out[1]) = 2

(***************************************************************************)
(* Further claims about the Router                                         *)
(***************************************************************************)
\* the host of the call without the dot at its end
Undotted == SliceTo(Host, Len(Host) - 1)

\* C26: resolving, through the in-memory resolver behind the exact-name
\* table, a name without default port fails with NoDefaultPort
C26_NoDefaultPort ==
    (Called /\ TheCall.kind = "exact" /\ TheCall.name.port = None) =>
        TheCall.returned = Err("NoDefaultPort")

\* C30: suffix keys are compared with the host as written: a host that ends
\* with a dot is routed to a suffix only if the registered key itself ends
\* with a dot (or is empty); with keys that carry no such dot it goes to the
\* fallback, or fails with NameNotFound when there is none
C30_TrailingDotNoSuffix ==
    (Called /\ ends_with(Host, Dot) /\ Host \notin DOMAIN names) =>
        /\ TheCall.kind = "suffix" =>
             TheCall.key = <<>> \/ ends_with(TheCall.key, Dot)
        /\ (\A s \in DOMAIN suffixes : s # <<>> /\ ~ ends_with(s, Dot)) =>
             /\ TheCall.kind = IF IsSome(fallback) THEN "fallback" ELSE "none"
             /\ fallback = None => TheCall.returned = Err("NameNotFound")

\* a host that would match a registered suffix but for the dot at its end,
\* routed to the fallback
C30_Witness ==
    /\ Called
    /\ ends_with(Host, Dot)
    /\ Matching(Undotted) # {}
    /\ Undotted \notin DOMAIN suffixes
    /\ TheCall.kind = "fallback"

(***************************************************************************)
(* Further claims about Union and StreamOnce                               *)
(***************************************************************************)
\* every input of the Union had ended before its last poll began
AllEndedBefore ==
    /\ ulast.kind # "none"
    /\ ulast.ended = {}
    /\ \A i \in DOMAIN ustreams : ustreams[i] = "ended"

\* C27: a poll in which an input answers an error returns that same error
\* and emits no Address, also when other inputs yielded items earlier in
\* that poll; and a poll returns an error only if an input answered it
C27_ErrorPropagates ==
    /\ ulast.failed # {} =>
         /\ ulast.kind = "Err"
         /\ ulast.failed = {ulast.err}
         /\ ulast.item = <<>>
    /\ ulast.kind = "Err" => ulast.err \in ulast.failed

\* an error returned by a poll in which an earlier input yielded an item
C27_Witness ==
    /\ ulast.kind = "Err"
    /\ ulast.yielded # {}
    /\ \E i \in ulast.yielded : LastLevel0(i) # {}

\* C28: the one-shot-to-stream adapter never polls its inner future after
\* that future has returned its result: the future is dropped when the
\* item is yielded and later polls do not touch it
C28_NoPollAfterCompletion ==
    /\ \A i \in 1..Len(polls) : polls[i].innerWas = "done" => ~ polls[i].touched
    /\ (\E i \in 1..Len(polls) : polls[i].kind = "Item") => future = None

\* C29: a Union never signals end-of-stream: every poll returns an item,
\* an error or NotReady, for any number of inputs, and a poll made after
\* all inputs have ended returns NotReady
C29_NeverEnds ==
    /\ ulast.kind \in {"none", "Item", "Err", "NotReady"}
    /\ AllEndedBefore => ulast.kind = "NotReady"

\* a poll of a Union of two inputs that had both ended, after they yielded
C29_Witness ==
    /\ AllEndedBefore
    /\ Len(ustreams) = 2
    /\ Yielders = {1, 2}
    /\ ulast.kind = "NotReady"

(***************************************************************************)
(* Builder                                                                 *)
(***************************************************************************)
\* the sets of a sequence of calls that are not empty, in call order
RECURSIVE NonEmptySets(_)
NonEmptySets(calls) ==
    IF Len(calls) = 0 THEN <<>>
    ELSE IF Head(calls) = <<>> THEN NonEmptySets(Tail(calls))
    ELSE <<Head(calls)>> \o NonEmptySets(Tail(calls))

Built == bphase = "built"
BuiltLevels == Unwrap(baddr)

\* C21: after any sequence of add_addresses calls followed by into_address,
\* the levels of the Address are exactly the non-empty sets passed, in call
\* order: one level per non-empty call, nothing merged, no empty level.
C21_BuilderLevels ==
    Built =>
        /\ BuiltLevels = NonEmptySets(bcalls)
        /\ \A i \in 1..Len(BuiltLevels) : BuiltLevels[i] # <<>>

\* three calls, the second with an empty set: two levels, the first call
\* above the third
C21_Witness ==
    /\ Built
    /\ Len(bcalls) = 3
    /\ bcalls[1] = << <<0, "A">> >>
    /\ bcalls[2] = <<>>
    /\ bcalls[3] = << <<0, "A">>, <<1, "B">> >>
    /\ BuiltLevels = <<bcalls[1], bcalls[3]>>

(***************************************************************************)
(* Name                                                                    *)
(***************************************************************************)
\* the characters of a label: lower-case ASCII letters, digits, "-", "_"
LabelChars ==
    LowercaseChars \cup {Digits[d] : d \in 1..Len(Digits)} \cup {"-", "_"}

\* the labels of a host: the pieces between its dots, one trailing dot aside
Labels(h) == split(IF ends_with(h, Dot) THEN SliceTo(h, Len(h) - 1) ELSE h)

EmptyLabel(h) == \E i \in 1..Len(Labels(h)) : Len(Labels(h)[i]) = 0
DashLabel(h) ==
    \E i \in 1..Len(Labels(h)) :
        starts_with(Labels(h)[i], "-") \/ ends_with(Labels(h)[i], "-")
BadChar(h) ==
    \E i \in 1..Len(Labels(h)) :
        \E j \in 1..Len(Labels(h)[i]) : Labels(h)[i][j] \notin LabelChars

GrammarOk(h) == ~ EmptyLabel(h) /\ ~ DashLabel(h) /\ ~ BadChar(h)

\* the errors that answer the violations a host has
Violations(h) ==
    (IF EmptyLabel(h) THEN {"DotError"} ELSE {})
    \cup (IF DashLabel(h) THEN {"InvalidPrefixSuffix"} ELSE {})
    \cup (IF BadChar(h) THEN {"InvalidChar"} ELSE {})

\* the string parsed: its host, and whether its port (if any) is a port
HostPart == splitn2(nsrc)[1]
PortOk == Len(splitn2(nsrc)) = 2 => parse_u16(splitn2(nsrc)[2]) # None
Parsed == IsSome(nparsed)
ParseResult == Unwrap(nparsed)

\* C22: every host that is a dot-separated sequence of non-empty labels over
\* lower-case letters, digits, "-" and "_", no label starting or ending with
\* "-", with an optional trailing dot, parses as a Name.
C22_ValidHostParses ==
    (Parsed /\ PortOk /\ GrammarOk(HostPart)) =>
        /\ ParseResult.tag = "Ok"
        /\ ParseResult.host = HostPart

\* C23: a parsed Name, displayed and parsed again, is the same Name: host
\* (trailing dot included) and default port are preserved.
C23_RoundTrip ==
    IsSome(nreparsed) =>
        /\ Unwrap(nreparsed).tag = "Ok"
        /\ Unwrap(nreparsed) = ParseResult

\* a host with a trailing dot and a port, parsed, displayed and parsed again
C23_Witness ==
    /\ IsSome(nreparsed)
    /\ nsrc = <<"a", Dot, Colon, "1">>
    /\ Unwrap(nshown) = nsrc
    /\ Unwrap(nreparsed) = NameOk(<<"a", Dot>>, Some(1))

\* C24: a host that violates the grammar does not parse, and the error is
\* the one of a violation it has: the dot error for an empty label, the
\* prefix/suffix error for a label that starts or ends with "-", the
\* invalid-character error for a character outside the allowed set.
C24_InvalidHostFails ==
    (Parsed /\ PortOk /\ ~ GrammarOk(HostPart)) =>
        /\ ParseResult.tag = "Err"
        /\ ParseResult.err \in Violations(HostPart)

(***************************************************************************)
(* Null wrappers                                                           *)
(***************************************************************************)
WCalled == IsSome(wlast)
TheWCall == Unwrap(wlast)
NotFound == Err("NameNotFound")

\* C25: the null-service wrapper (NullResolver) answers resolve_host with
\* the wrapped resolver's resolve_host result and fails resolve with
\* NameNotFound without calling the wrapped resolver; the null-host wrapper
\* (NullHostResolver) passes resolve through and fails resolve_host with
\* NameNotFound, again without a call.
C25_NullWrappers ==
    WCalled =>
        LET passed == (wrapper = "NullResolver") = (TheWCall.op = "resolve_host")
        IN  IF passed
            THEN /\ TheWCall.invoked = <<TheWCall.op>>
                 /\ TheWCall.returned = TheWCall.inner[TheWCall.op]
            ELSE /\ TheWCall.invoked = <<>>
                 /\ TheWCall.returned = NotFound

\* resolve on the null-service wrapper of a resolver that would have
\* answered: NameNotFound, and the same wrapper's resolve_host passed on
C25_Witness ==
    /\ WCalled
    /\ wrapper = "NullResolver"
    /\ TheWCall.op = "resolve"
    /\ TheWCall.inner.resolve.tag = "Ok"
    /\ TheWCall.inner.resolve_host.tag = "Ok"
    /\ TheWCall.returned = NotFound
    /\ TheWCall.invoked = <<>>

====
